---- MODULE Spec2Model ----
(***************************************************************************)
(* A model of geotoolkit.py (tjslezak/geoclass): the vector-to-raster      *)
(* labelling toolkit.  Every function of the file is an operator computed   *)
(* the way the Python computes it, and an action that applies it to the     *)
(* inputs held in that function's frame.                                    *)
(*                                                                          *)
(* Representation.                                                          *)
(*   - A string is a sequence of one-character strings, so that split and   *)
(*     replace are computed, not assumed.                                   *)
(*   - A location is <<row, col>> in the pixel coordinate system of the     *)
(*     raster tile (the affine transform of the tile maps pixel (row, col)  *)
(*     to that location).  A geometry is [kind, parts]: parts is the        *)
(*     sequence of its constituent polygons, each the set of locations it   *)
(*     covers; a Polygon has exactly one part.                              *)
(*   - A data frame is a sequence of rows; a row carries its index label.   *)
(***************************************************************************)
EXTENDS Integers, Sequences, FiniteSets, TLC

VARIABLES clip, norm, name, lut, gla, label, mask, disk

vars == <<clip, norm, name, lut, gla, label, mask, disk>>

(***************************************************************************)
(* Bounds of the model.                                                     *)
(***************************************************************************)
MaxRows == 2        \* rows of a data frame handed to clip / normalize
MaxLabel == 2       \* index labels are drawn from 0..MaxLabel
MaxParts == 2       \* constituents of a MultiPolygon: 0..MaxParts
MaxRecs == 2        \* records of the data frame that is rasterized
MaxDim == 2         \* tile width and height: 1..MaxDim
MaxPathLen == 4     \* characters of a raster path
MaskCols == 2       \* columns of the rasters handed to mask_raster alone

Idle == [pc |-> "idle"]

(***************************************************************************)
(* Generic helpers.                                                         *)
(***************************************************************************)
SeqsUpTo(S, n) == UNION {[1..k -> S] : k \in 0..n}

Last(s) == s[Len(s)]

\* The locations of the rectangle of rows r1..r2 and columns c1..c2.
Rect(r1, r2, c1, c2) == {<<r, c>> : r \in r1..r2, c \in c1..c2}

\* A sample of polygons over a 2x2 block of locations: overlapping,
\* nested and disjoint ones.
PolygonCells == {Rect(1, 1, 1, 1), Rect(1, 2, 1, 1), Rect(1, 2, 1, 2), Rect(2, 2, 2, 2)}

Polygon(S) == [kind |-> "Polygon", parts |-> <<S>>]

Cells(g) == UNION {g.parts[i] : i \in DOMAIN g.parts}

(***************************************************************************)
(* Python str methods used by the file.                                     *)
(***************************************************************************)
Contains(s, c) == \E i \in DOMAIN s : s[i] = c

FirstIndex(s, c) == CHOOSE i \in DOMAIN s : s[i] = c /\ \A j \in 1..(i - 1) : s[j] # c

\* s.split(c) for a one-character separator c
RECURSIVE split(_, _)
split(s, c) ==
    IF ~Contains(s, c) THEN <<s>>
    ELSE LET i == FirstIndex(s, c)
         IN  <<SubSeq(s, 1, i - 1)>> \o split(SubSeq(s, i + 1, Len(s)), c)

\* s.replace(old, ''): every non-overlapping occurrence of old, scanning
\* from the left, is removed; an empty old leaves s as it is.
RECURSIVE replace(_, _)
replace(s, old) ==
    IF old = <<>> \/ Len(s) < Len(old) THEN s
    ELSE IF SubSeq(s, 1, Len(old)) = old
         THEN replace(SubSeq(s, Len(old) + 1, Len(s)), old)
         ELSE <<s[1]>> \o replace(Tail(s), old)

(***************************************************************************)
(* Data frames.  A row is [index, geometry, mapunit]; index is the row's    *)
(* label, which pandas keeps apart from the row's position.                 *)
(***************************************************************************)
Units == {"U1", "U2"}

Row(i, g, u) == [index |-> i, geometry |-> g, mapunit |-> u]

\* shapely: a.intersects(b), a.contains(b), a.intersection(b) on location sets
intersects(a, b) == Cells(a) \cap Cells(b) # {}

contains(a, b) == Cells(b) # {} /\ Cells(b) \subseteq Cells(a)

intersection(a, b) ==
    [kind |-> a.kind, parts |-> [i \in DOMAIN a.parts |-> a.parts[i] \cap Cells(b)]]

(***************************************************************************)
(* part_the_geojson(bounds, gdf)                                            *)
(***************************************************************************)
\* The geometry column after the loop: gdf.at[i, 'geometry'] = new_value for
\* the rows that intersect the bounds (the passed frame is changed in place).
ClippedRows(bounds, gdf) ==
    [k \in DOMAIN gdf |->
        IF intersects(gdf[k].geometry, bounds) \/ contains(gdf[k].geometry, bounds)
        THEN Row(gdf[k].index, intersection(gdf[k].geometry, bounds), gdf[k].mapunit)
        ELSE gdf[k]]

\* todrop: the index LABELS of the rows that do not intersect, in row order.
RECURSIVE todrop(_, _)
todrop(bounds, gdf) ==
    IF gdf = <<>> THEN <<>>
    ELSE (IF intersects(gdf[1].geometry, bounds) \/ contains(gdf[1].geometry, bounds)
          THEN <<>> ELSE <<gdf[1].index>>) \o todrop(bounds, Tail(gdf))

\* gdf.index[todrop]: the labels are used as 0-based POSITIONS into the
\* index; a position outside the frame is an IndexError.
\* gdf.drop(labels): the rows bearing one of those labels are removed.
DropByPosition(rows, drop) ==
    IF \E k \in DOMAIN drop : drop[k] >= Len(rows)
    THEN [status |-> "IndexError", rows |-> <<>>]
    ELSE LET labels == {rows[drop[k] + 1].index : k \in DOMAIN drop}
             Keep(r) == r.index \notin labels
         IN  [status |-> "ok", rows |-> SelectSeq(rows, Keep)]

part_the_geojson(bounds, gdf) ==
    DropByPosition(ClippedRows(bounds, gdf), todrop(bounds, gdf))

(***************************************************************************)
(* clean_gdf_geometry(gdf)                                                  *)
(*                                                                          *)
(* multdf.append([row]*recs) with recs = 0 appends an empty list: pandas    *)
(* before 1.0 raises IndexError on it (it reads other[0]), pandas 1.x       *)
(* appends nothing.  emptyAppendRaises picks which pandas is installed.     *)
(***************************************************************************)
\* The expansion that gives every record of a MultiPolygon its first
\* constituent.
ExpandRowFirstConstituent(row) ==
    IF row.geometry.kind = "Polygon" THEN <<row>>
    ELSE IF row.geometry.kind = "MultiPolygon"
         THEN [geom \in 1..Len(row.geometry.parts) |->
                  Row(row.index, Polygon(row.geometry.parts[1]), row.mapunit)]
         ELSE <<>>

\* The rows one input row contributes to outdf.
ExpandRow(row) ==
    IF row.geometry.kind = "Polygon" THEN <<row>>
    ELSE IF row.geometry.kind = "MultiPolygon"
         THEN [geom \in 1..Len(row.geometry.parts) |->
                  Row(row.index, Polygon(row.geometry.parts[geom]), row.mapunit)]
         ELSE <<>>

RECURSIVE ExpandRows(_)
ExpandRows(gdf) ==
    IF gdf = <<>> THEN <<>> ELSE ExpandRow(gdf[1]) \o ExpandRows(Tail(gdf))

\* ignore_index=True: the output rows are labelled 0, 1, 2, ...
Reindex(rows) == [k \in DOMAIN rows |-> Row(k - 1, rows[k].geometry, rows[k].mapunit)]

clean_gdf_geometry(gdf, emptyAppendRaises) ==
    IF emptyAppendRaises
       /\ \E k \in DOMAIN gdf : /\ gdf[k].geometry.kind = "MultiPolygon"
                                /\ gdf[k].geometry.parts = <<>>
    THEN [status |-> "IndexError", rows |-> <<>>]
    ELSE [status |-> "ok", rows |-> Reindex(ExpandRows(gdf))]

(***************************************************************************)
(* format_label_fn(path_to_rasterfile) and the output name of mask_raster   *)
(***************************************************************************)
LabelSuffix == <<"_labels.tif">>

RasterSuffix == <<"_raster.tif">>

format_label_fn(path_to_rasterfile) ==
    LET hasDir == Contains(path_to_rasterfile, "/")
        fn == IF hasDir THEN Last(split(path_to_rasterfile, "/")) ELSE path_to_rasterfile
        path == IF hasDir THEN replace(path_to_rasterfile, fn) ELSE <<>>
        tile == split(fn, "_")[1]
    IN  path \o tile \o LabelSuffix

mask_outname(imgpth) ==
    LET nm == Last(split(imgpth, "/"))
        path == replace(imgpth, nm)
    IN  path \o split(nm, "_")[1] \o RasterSuffix

(***************************************************************************)
(* Reference data with a fallback.  A source is [readable, data]; reading   *)
(* returns what was read and the sources fetched, in order.                 *)
(***************************************************************************)
Source(ok, data) == [readable |-> ok, data |-> data]

Unreadable == Source(FALSE, <<>>)

\* The read that always goes on to the fallback URL.
ReadCsvAlwaysFallback(primary, fallback) ==
    IF fallback.readable
    THEN [status |-> "ok", data |-> fallback.data, fetched |-> <<"primary", "fallback">>]
    ELSE [status |-> "ResourceUnavailable", data |-> <<>>,
          fetched |-> <<"primary", "fallback">>]

\* try: pd.read_csv(path_to_desc)  except: pd.read_csv(<fixed URL>)
ReadCsvWithFallback(primary, fallback) ==
    IF primary.readable
    THEN [status |-> "ok", data |-> primary.data, fetched |-> <<"primary">>]
    ELSE IF fallback.readable
         THEN [status |-> "ok", data |-> fallback.data,
               fetched |-> <<"primary", "fallback">>]
         ELSE [status |-> "ResourceUnavailable", data |-> <<>>,
               fetched |-> <<"primary", "fallback">>]

\* try: gpd.read_file(path_to_azgeo)  except: gpd.read_file(<fixed URL>)
ReadFileWithFallback(primary, fallback) ==
    IF primary.readable
    THEN [status |-> "ok", data |-> primary.data, fetched |-> <<"primary">>]
    ELSE IF fallback.readable
         THEN [status |-> "ok", data |-> fallback.data,
               fetched |-> <<"primary", "fallback">>]
         ELSE [status |-> "ResourceUnavailable", data |-> <<>>,
               fetched |-> <<"primary", "fallback">>]

(***************************************************************************)
(* generate_unitcolor_lookup(path_to_desc)                                  *)
(*                                                                          *)
(* A row of the description file is [mapunit, areafillrgb]; areafillrgb is  *)
(* the string "R;G;B".                                                      *)
(***************************************************************************)
Digits == <<"0", "1", "2", "3", "4", "5", "6", "7", "8", "9">>

IsDigit(c) == \E d \in DOMAIN Digits : Digits[d] = c

DigitValue(c) == (CHOOSE d \in DOMAIN Digits : Digits[d] = c) - 1

\* int(x) succeeds on a non-empty string of decimal digits
IsInt(x) == x # <<>> /\ \A i \in DOMAIN x : IsDigit(x[i])

RECURSIVE ParseInt(_)
ParseInt(x) ==
    IF Len(x) = 1 THEN DigitValue(x[1])
    ELSE 10 * ParseInt(SubSeq(x, 1, Len(x) - 1)) + DigitValue(Last(x))

\* np.int(x.split(';')[k]) can be computed for channel k (0-based k = n - 1)
ChannelOk(x, n) == Len(split(x, ";")) >= n /\ IsInt(split(x, ";")[n])

Channel(x, n) == ParseInt(split(x, ";")[n])

generate_unitcolor_lookup(desc) ==
    LET read == ReadCsvWithFallback(desc.primary, desc.fallback)
        rows == read.data
    IN  IF read.status # "ok"
        THEN [status |-> read.status, table |-> <<>>, fetched |-> read.fetched]
        ELSE IF \E k \in DOMAIN rows : \E n \in 1..3 : ~ChannelOk(rows[k].areafillrgb, n)
        THEN [status |-> "ParseError", table |-> <<>>, fetched |-> read.fetched]
        ELSE [status |-> "ok",
              table |-> [k \in DOMAIN rows |->
                            [mapunit |-> rows[k].mapunit,
                             R |-> Channel(rows[k].areafillrgb, 1),
                             G |-> Channel(rows[k].areafillrgb, 2),
                             B |-> Channel(rows[k].areafillrgb, 3)]],
              fetched |-> read.fetched]

\* unitcolor.R[key], unitcolor.G[key], unitcolor.B[key]: the table is indexed
\* by mapunit with set_index, which does not check that the keys are unique.
\* No entry: KeyError.  One entry: its three integers.  Several entries: each
\* column lookup returns a Series holding one value per entry.
Lookup(table, key) ==
    LET IsKey(r) == r.mapunit = key
        hits == SelectSeq(table, IsKey)
    IN  [status |-> IF hits = <<>> THEN "KeyError"
                    ELSE IF Len(hits) = 1 THEN "ok" ELSE "Series",
         values |-> [k \in DOMAIN hits |-> <<hits[k].R, hits[k].G, hits[k].B>>]]

(***************************************************************************)
(* rasterio.features.rasterize and gdf_to_rst                               *)
(***************************************************************************)
\* The location the affine transform trs gives pixel (r, c).
PixelLoc(trs, r, c) == <<r + trs[1], c + trs[2]>>

\* The shape burnt first wins.
BurnFirst(shapes, loc) ==
    LET covering == {k \in DOMAIN shapes : loc \in Cells(shapes[k].geometry)}
    IN  IF covering = {} THEN 0
        ELSE shapes[CHOOSE k \in covering : \A j \in covering : j >= k].value

\* The value burnt at a location: shapes are burnt in order, a later shape
\* overwrites an earlier one; the fill value is 0.
Burn(shapes, loc) ==
    LET covering == {k \in DOMAIN shapes : loc \in Cells(shapes[k].geometry)}
    IN  IF covering = {} THEN 0
        ELSE shapes[CHOOSE k \in covering : \A j \in covering : j <= k].value

\* rasterize(shapes, out_shape, transform): out_shape is (rows, columns).
rasterize(shapes, out_shape, trs) ==
    [p \in Rect(1, out_shape[1], 1, out_shape[2]) |-> Burn(shapes, PixelLoc(trs, p[1], p[2]))]

\* gdf.mapunit[i]: the mapunit of the row labelled i (the labels are unique)
mapunit_at(gdf, i) == gdf[CHOOSE k \in DOMAIN gdf : gdf[k].index = i].mapunit

\* [(x.geometry, unitcolor.<channel n>[gdf.mapunit[i]]) for i, x in gdf.iterrows()]
Shapes(gdf, table, n) ==
    [k \in DOMAIN gdf |->
        [geometry |-> gdf[k].geometry,
         value |-> Lookup(table, mapunit_at(gdf, gdf[k].index)).values[1][n]]]

\* emptyRaises: rasterize of no shapes raises ValueError in rasterio 1.x
\* ("No valid geometry objects found for rasterize") and returns the fill
\* grid in earlier versions.
gdf_to_rst(gdf, trs, w, h, desc, emptyRaises) ==
    LET unitcolor == generate_unitcolor_lookup(desc)
        found == [k \in DOMAIN gdf |-> Lookup(unitcolor.table, mapunit_at(gdf, gdf[k].index))]
        none == [status |-> "", rows |-> 0, cols |-> 0, bands |-> <<>>,
                 fetched |-> unitcolor.fetched, resolved |-> <<>>]
    IN  IF unitcolor.status # "ok" THEN [none EXCEPT !.status = unitcolor.status]
        ELSE IF \E k \in DOMAIN gdf : found[k].status = "KeyError"
        THEN [none EXCEPT !.status = "KeyError", !.resolved = found]
        ELSE IF \E k \in DOMAIN gdf : found[k].status = "Series"
        THEN [none EXCEPT !.status = "TypeError", !.resolved = found]
        ELSE IF gdf = <<>> /\ emptyRaises
        THEN [none EXCEPT !.status = "ValueError"]
        ELSE [status |-> "ok", rows |-> w, cols |-> h,
              bands |-> [n \in 1..3 |-> rasterize(Shapes(gdf, unitcolor.table, n), <<w, h>>, trs)],
              fetched |-> unitcolor.fetched, resolved |-> found]

(***************************************************************************)
(* Raster files.  A file is [exists, rows, cols, transform, nodata, bands]; *)
(* bands[n] maps pixel <<row, col>> to its value.  A source tile is         *)
(* [width, height, transform, image]: image names its pixel values.         *)
(***************************************************************************)
NoFile == [exists |-> FALSE, rows |-> 0, cols |-> 0, transform |-> <<0, 0>>,
           nodata |-> 0, bands |-> <<>>]

ImageValue(image, n, p) == IF image = "flat" THEN 50 ELSE 10 * n + p[2]

Tile(w, h, trs, image) == [width |-> w, height |-> h, transform |-> trs, image |-> image]

\* src.read(band) of a tile
ReadBand(tile, n) == [p \in Rect(1, tile.height, 1, tile.width) |-> ImageValue(tile.image, n, p)]

\* arr.reshape(rows, cols) of a (fromRows x fromCols) grid: same elements in
\* row-major order.
Reshape(grid, fromCols, rows, cols) ==
    [p \in Rect(1, rows, 1, cols) |->
        LET f == (p[1] - 1) * cols + (p[2] - 1)
        IN  grid[<<(f \div fromCols) + 1, (f % fromCols) + 1>>]]

\* dst.write(arr, indexes=k) into a band of rows x cols pixels: GDAL's
\* RasterIO copies a buffer of the band's shape as it is and samples a buffer
\* of another shape to the band by nearest neighbour.
WriteBand(arr, arrRows, arrCols, rows, cols) ==
    [p \in Rect(1, rows, 1, cols) |->
        arr[<<(((2 * p[1] - 1) * arrRows) \div (2 * rows)) + 1,
              (((2 * p[2] - 1) * arrCols) \div (2 * cols)) + 1>>]]

ZeroBand(rows, cols) == [p \in Rect(1, rows, 1, cols) |-> 0]

(***************************************************************************)
(* write_label_image(label_array, path_to_rasterfile, filename_to_write)    *)
(*                                                                          *)
(* fault names the I/O call that fails, if one does: "src" the open of the  *)
(* source raster, "dst" the open of the output for writing, "write" a       *)
(* dst.write after the output was created.                                  *)
(***************************************************************************)
WriteFaults == {"none", "src", "dst", "write"}

\* The writer that opens the output before it reshapes the array.
write_label_image_early(label_array, src, fault) ==
    LET w == src.width
        h == src.height
        made == [exists |-> TRUE, rows |-> h, cols |-> w, transform |-> src.transform,
                 nodata |-> 0, bands |-> [n \in 1..3 |-> ZeroBand(h, w)]]
    IN  IF fault = "src" \/ fault = "dst"
        THEN [status |-> "RasterioIOError", created |-> FALSE, file |-> NoFile]
        ELSE IF label_array.rows * label_array.cols # w * h
        THEN [status |-> "ValueError", created |-> TRUE, file |-> made]
        ELSE IF fault = "write"
        THEN [status |-> "RasterioIOError", created |-> TRUE, file |-> made]
        ELSE [status |-> "ok", created |-> TRUE,
              file |-> [made EXCEPT !.bands =
                          [n \in 1..3 |->
                              WriteBand(Reshape(label_array.bands[n], label_array.cols, w, h),
                                        w, h, h, w)]]]

write_label_image(label_array, src, fault) ==
    LET w == src.width
        h == src.height
        \* DefaultGTiffProfile(count=3, width=w, height=h): uint8, nodata 0
        made == [exists |-> TRUE, rows |-> h, cols |-> w, transform |-> src.transform,
                 nodata |-> 0, bands |-> [n \in 1..3 |-> ZeroBand(h, w)]]
    IN  IF fault = "src"
        THEN [status |-> "RasterioIOError", created |-> FALSE, file |-> NoFile]
        ELSE IF label_array.rows * label_array.cols # w * h
        THEN [status |-> "ValueError", created |-> FALSE, file |-> NoFile]
        ELSE IF fault = "dst"
        THEN [status |-> "RasterioIOError", created |-> FALSE, file |-> NoFile]
        ELSE IF fault = "write"
        THEN [status |-> "RasterioIOError", created |-> TRUE, file |-> made]
        ELSE [status |-> "ok", created |-> TRUE,
              file |-> [made EXCEPT !.bands =
                          [n \in 1..3 |->
                              WriteBand(Reshape(label_array.bands[n], label_array.cols, w, h),
                                        w, h, h, w)]]]

(***************************************************************************)
(* mask_raster(imgpth, lblpth)                                              *)
(***************************************************************************)
MaskFaults == {"none", "lbl", "img", "dst", "write"}

\* lbl.read_masks(): per band, 0 where the band holds the nodata value and
\* 255 elsewhere.
read_masks(lbl) ==
    [n \in 1..3 |-> [p \in Rect(1, lbl.rows, 1, lbl.cols) |->
                        IF lbl.bands[n][p] = lbl.nodata THEN 0 ELSE 255]]

\* nm = (msk/255).astype(uint16)
nm(lbl) == [n \in 1..3 |-> [p \in Rect(1, lbl.rows, 1, lbl.cols) |->
                               read_masks(lbl)[n][p] \div 255]]

\* One mask for all bands: 1 where every band of the label raster is valid.
MaskAllBands(lbl, n, q) ==
    IF \A m \in 1..3 : nm(lbl)[m][q] = 1 THEN 1 ELSE 0

\* The factor band n of the image is multiplied by at label pixel q.
MaskOfBand(lbl, n, q) == nm(lbl)[n][q]

\* b *= nm[n - 1, :, :] broadcasts: an axis of the mask of length 1 is
\* stretched, any other length has to equal the image's.
Broadcasts(lbl, img) ==
    /\ lbl.rows = img.height \/ lbl.rows = 1
    /\ lbl.cols = img.width \/ lbl.cols = 1

Multiplied(lbl, img, n) ==
    [p \in Rect(1, img.height, 1, img.width) |->
        ReadBand(img, n)[p]
          * MaskOfBand(lbl, n, <<IF lbl.rows = 1 THEN 1 ELSE p[1],
                                 IF lbl.cols = 1 THEN 1 ELSE p[2]>>)]

mask_raster(img, imgpth, lbl, fault) ==
    LET made == [exists |-> TRUE, rows |-> img.height, cols |-> img.width,
                 transform |-> img.transform, nodata |-> 0,
                 bands |-> [n \in 1..3 |-> ZeroBand(img.height, img.width)]]
        none == [status |-> "", created |-> FALSE, file |-> NoFile,
                 outname |-> mask_outname(imgpth)]
    IN  IF fault = "lbl" \/ ~lbl.exists \/ fault = "img"
        THEN [none EXCEPT !.status = "RasterioIOError"]
        ELSE IF ~Broadcasts(lbl, img)
        THEN [none EXCEPT !.status = "ValueError"]
        ELSE IF fault = "dst"
        THEN [none EXCEPT !.status = "RasterioIOError"]
        ELSE IF fault = "write"
        THEN [none EXCEPT !.status = "RasterioIOError", !.created = TRUE, !.file = made]
        ELSE [none EXCEPT !.status = "ok", !.created = TRUE,
                          !.file = [made EXCEPT !.bands =
                                      [n \in 1..3 |-> Multiplied(lbl, img, n)]]]

(***************************************************************************)
(* generate_label_array(path_to_rasterfile, path_to_azgeo, path_to_desc)    *)
(***************************************************************************)
\* geometry.box(*src.bounds): the footprint of the tile
Footprint(tile) ==
    Polygon({PixelLoc(tile.transform, p[1], p[2]) : p \in Rect(1, tile.height, 1, tile.width)})

generate_label_array(tile, vector, desc, emptyAppendRaises, emptyRaises) ==
    LET read == ReadFileWithFallback(vector.primary, vector.fallback)
        azgeo == clean_gdf_geometry(read.data, emptyAppendRaises)
        gdf_temp == part_the_geojson(Footprint(tile), azgeo.rows)
        label_array == gdf_to_rst(gdf_temp.rows, tile.transform, tile.width, tile.height,
                                  desc, emptyRaises)
        none == [status |-> "", failed_in |-> "",
                 array |-> [rows |-> 0, cols |-> 0, bands |-> <<>>],
                 vfetched |-> read.fetched, dfetched |-> <<>>]
    IN  IF read.status # "ok"
        THEN [none EXCEPT !.status = read.status, !.failed_in = "read_file"]
        ELSE IF azgeo.status # "ok"
        THEN [none EXCEPT !.status = azgeo.status, !.failed_in = "clean_gdf_geometry"]
        ELSE IF gdf_temp.status # "ok"
        THEN [none EXCEPT !.status = gdf_temp.status, !.failed_in = "part_the_geojson"]
        ELSE [status |-> label_array.status,
              failed_in |-> IF label_array.status = "ok" THEN "" ELSE "gdf_to_rst",
              array |-> [rows |-> label_array.rows, cols |-> label_array.cols,
                         bands |-> label_array.bands],
              vfetched |-> read.fetched, dfetched |-> label_array.fetched]

(***************************************************************************)
(* The inputs the model draws from.                                         *)
(***************************************************************************)
PartCells == {Rect(1, 1, 1, 1), Rect(2, 2, 2, 2)}

NormGeometries ==
    {Polygon(S) : S \in PartCells}
      \cup {[kind |-> "MultiPolygon", parts |-> ps] : ps \in SeqsUpTo(PartCells, MaxParts)}
      \cup {[kind |-> "Point", parts |-> <<Rect(1, 1, 1, 1)>>]}

\* Frames as clean_gdf_geometry and gdf_to_rst receive them: labelled 0..n-1.
RangeIndexed(geoms, n) ==
    {[k \in 1..Len(f) |-> Row(k - 1, f[k][1], f[k][2])] : f \in SeqsUpTo(geoms \X Units, n)}

\* Frames with any unique integer labels.
AnyIndexed(geoms, n) ==
    {f \in SeqsUpTo([index : 0..MaxLabel, geometry : geoms, mapunit : Units], n) :
        \A j, k \in DOMAIN f : j # k => f[j].index # f[k].index}

Polygons == {Polygon(S) : S \in PolygonCells}

Paths == SeqsUpTo({"a", "_", "/"}, MaxPathLen)

DescRow(u, rgb) == [mapunit |-> u, areafillrgb |-> rgb]

Rgb201 == <<"2", ";", "0", ";", "1">>

Rgb1033 == <<"1", "0", ";", "3", ";", "3">>

Rgb77 == <<"7", ";", "7">>

\* Description files: complete, lacking U2, with U1 twice, with a
\* descriptor of two fields.
DescFiles ==
    {<<DescRow("U1", Rgb201), DescRow("U2", Rgb1033)>>,
     <<DescRow("U1", Rgb201)>>,
     <<DescRow("U1", Rgb201), DescRow("U1", Rgb1033), DescRow("U2", Rgb1033)>>,
     <<DescRow("U1", Rgb77), DescRow("U2", Rgb1033)>>}

DescSources == {Source(TRUE, d) : d \in DescFiles} \cup {Unreadable}

RemoteDesc == Source(TRUE, <<DescRow("U1", Rgb201), DescRow("U2", Rgb1033)>>)

\* path_to_desc with the fixed URL behind it
LabelDescs ==
    {[primary |-> src, fallback |-> RemoteDesc] : src \in DescSources}

AllDescs == [primary : DescSources, fallback : DescSources]

VectorFiles ==
    {<<Row(0, Polygon(Rect(1, 1, 1, 1)), "U1")>>,
     <<Row(0, [kind |-> "MultiPolygon", parts |-> <<Rect(1, 2, 1, 1), Rect(2, 2, 2, 2)>>], "U2"),
       Row(1, Polygon(Rect(1, 2, 1, 2)), "U1")>>}

VectorSources == {Source(TRUE, v) : v \in VectorFiles} \cup {Unreadable}

AllVectors == [primary : VectorSources, fallback : VectorSources]

Transforms == {<<0, 0>>, <<0, 1>>}

Tiles == {Tile(w, h, trs, "flat") : w \in 1..MaxDim, h \in 1..MaxDim, trs \in Transforms}

\* A raster one column wider than the tile.
Wider(tile) == [tile EXCEPT !.width = @ + 1]

\* Rasters of one row for mask_raster: every label raster over {0, 1}.
MaskLabels ==
    UNION {{[exists |-> TRUE, rows |-> 1, cols |-> c, transform |-> <<0, 0>>, nodata |-> 0,
             bands |-> b] : b \in [1..3 -> [Rect(1, 1, 1, c) -> {0, 1}]]} : c \in 1..MaskCols}

MaskImages == {Tile(w, 1, <<0, 0>>, image) : w \in 1..MaskCols, image \in {"flat", "ramp"}}

SamplePath == <<"a", "/", "a", "_">>

SampleLabel ==
    [exists |-> TRUE, rows |-> 1, cols |-> 1, transform |-> <<0, 0>>, nodata |-> 0,
     bands |-> [n \in 1..3 |-> [p \in Rect(1, 1, 1, 1) |-> 1]]]

(***************************************************************************)
(* Frames before their function has run.                                    *)
(***************************************************************************)
\* given keeps the frame as it was passed: the loop changes gdf in place.
ClipStart(bounds, gdf) ==
    [pc |-> "start", bounds |-> bounds, given |-> gdf, gdf |-> gdf,
     new |-> [status |-> "", rows |-> <<>>]]

NormStart(gdf) == [pc |-> "start", gdf |-> gdf, outdf |-> [status |-> "", rows |-> <<>>]]

NameStart(path) == [pc |-> "start", path_to_rasterfile |-> path, label_fn |-> <<>>]

LutStart(desc) ==
    [pc |-> "start", desc |-> desc,
     unitcolor |-> [status |-> "", table |-> <<>>, fetched |-> <<>>]]

GlaStart(tile, vector, desc) ==
    [pc |-> "start", tile |-> tile, vector |-> vector, desc |-> desc,
     out |-> [status |-> "", failed_in |-> "",
              array |-> [rows |-> 0, cols |-> 0, bands |-> <<>>],
              vfetched |-> <<>>, dfetched |-> <<>>]]

LabelStart(gdf, tile, desc) ==
    [pc |-> "start", gdf |-> gdf, tile |-> tile, desc |-> desc,
     array |-> [status |-> "", rows |-> 0, cols |-> 0, bands |-> <<>>,
                fetched |-> <<>>, resolved |-> <<>>],
     src |-> tile, fault |-> "none", status |-> "", created |-> FALSE]

\* The frame once a label raster has been written from the tile.
LabelWritten(tile) ==
    [LabelStart(<<>>, tile, [primary |-> Unreadable, fallback |-> Unreadable])
        EXCEPT !.pc = "written", !.status = "ok", !.created = TRUE]

MaskStart(img, imgpth) ==
    [pc |-> "start", img |-> img, imgpth |-> imgpth, fault |-> "none",
     status |-> "", created |-> FALSE, outname |-> <<>>]

EmptyDisk == [labels |-> NoFile, raster |-> NoFile]

(***************************************************************************)
(* The operations.                                                          *)
(***************************************************************************)
PartTheGeojson ==
    /\ clip.pc = "start"
    /\ clip' = [clip EXCEPT !.pc = "done",
                            !.gdf = ClippedRows(clip.bounds, clip.gdf),
                            !.new = part_the_geojson(clip.bounds, clip.gdf)]
    /\ UNCHANGED <<norm, name, lut, gla, label, mask, disk>>

CleanGdfGeometry ==
    /\ norm.pc = "start"
    /\ \E emptyAppendRaises \in BOOLEAN :
          norm' = [norm EXCEPT !.pc = "done",
                               !.outdf = clean_gdf_geometry(norm.gdf, emptyAppendRaises)]
    /\ UNCHANGED <<clip, name, lut, gla, label, mask, disk>>

FormatLabelFn ==
    /\ name.pc = "start"
    /\ name' = [name EXCEPT !.pc = "done",
                            !.label_fn = format_label_fn(name.path_to_rasterfile)]
    /\ UNCHANGED <<clip, norm, lut, gla, label, mask, disk>>

GenerateUnitcolorLookup ==
    /\ lut.pc = "start"
    /\ lut' = [lut EXCEPT !.pc = "done", !.unitcolor = generate_unitcolor_lookup(lut.desc)]
    /\ UNCHANGED <<clip, norm, name, gla, label, mask, disk>>

GenerateLabelArray ==
    /\ gla.pc = "start"
    /\ \E emptyAppendRaises \in BOOLEAN, emptyRaises \in BOOLEAN :
          gla' = [gla EXCEPT !.pc = "done",
                             !.out = generate_label_array(gla.tile, gla.vector, gla.desc,
                                                          emptyAppendRaises, emptyRaises)]
    /\ UNCHANGED <<clip, norm, name, lut, label, mask, disk>>

GdfToRst ==
    /\ label.pc = "start"
    /\ \E emptyRaises \in BOOLEAN :
          LET out == gdf_to_rst(label.gdf, label.tile.transform, label.tile.width,
                                label.tile.height, label.desc, emptyRaises)
          IN  label' = [label EXCEPT !.pc = IF out.status = "ok" THEN "rasterized" ELSE "failed",
                                     !.array = out]
    /\ UNCHANGED <<clip, norm, name, lut, gla, mask, disk>>

\* The array is written against the tile it was built for, or against
\* another raster.
WriteLabelImage ==
    /\ label.pc = "rasterized"
    /\ \E src \in {label.tile, Wider(label.tile)}, fault \in WriteFaults :
          LET out == write_label_image(label.array, src, fault)
          IN  /\ label' = [label EXCEPT !.pc = IF out.status = "ok" THEN "written" ELSE "failed",
                                        !.src = src, !.fault = fault,
                                        !.status = out.status, !.created = out.created]
              /\ disk' = [disk EXCEPT !.labels = IF out.created THEN out.file ELSE @]
    /\ UNCHANGED <<clip, norm, name, lut, gla, mask>>

\* The image is masked once its label raster has been written.
MaskRaster ==
    /\ label.pc = "written"
    /\ mask.pc = "start"
    /\ \E fault \in MaskFaults :
          LET out == mask_raster(mask.img, mask.imgpth, disk.labels, fault)
          IN  /\ mask' = [mask EXCEPT !.pc = IF out.status = "ok" THEN "done" ELSE "failed",
                                      !.fault = fault, !.status = out.status,
                                      !.created = out.created, !.outname = out.outname]
              /\ disk' = [disk EXCEPT !.raster = IF out.created THEN out.file ELSE @]
    /\ UNCHANGED <<clip, norm, name, lut, gla, label>>

(***************************************************************************)
(* Specifications.                                                          *)
(***************************************************************************)
\* The labelling pipeline of one tile: gdf_to_rst, write_label_image, then
\* mask_raster of the tile by the label raster written.
Init ==
    /\ clip = Idle /\ norm = Idle /\ name = Idle /\ lut = Idle /\ gla = Idle
    /\ \E gdf \in RangeIndexed(Polygons, MaxRecs), tile \in Tiles, desc \in LabelDescs :
          /\ label = LabelStart(gdf, tile, desc)
          /\ mask = MaskStart(tile, SamplePath)
    /\ disk = EmptyDisk

Next == GdfToRst \/ WriteLabelImage \/ MaskRaster

Spec == Init /\ [][Next]_vars

\* part_the_geojson on its own.
InitClip ==
    /\ \E bounds \in Polygons, gdf \in AnyIndexed(Polygons, MaxRows) :
          clip = ClipStart(bounds, gdf)
    /\ norm = Idle /\ name = Idle /\ lut = Idle /\ gla = Idle
    /\ label = Idle /\ mask = Idle /\ disk = EmptyDisk

NextClip == PartTheGeojson

SpecClip == InitClip /\ [][NextClip]_vars

\* clean_gdf_geometry on its own.
InitNorm ==
    /\ \E gdf \in RangeIndexed(NormGeometries, MaxRows) : norm = NormStart(gdf)
    /\ clip = Idle /\ name = Idle /\ lut = Idle /\ gla = Idle
    /\ label = Idle /\ mask = Idle /\ disk = EmptyDisk

NextNorm == CleanGdfGeometry

SpecNorm == InitNorm /\ [][NextNorm]_vars

\* The output names: format_label_fn, and mask_raster of the same path.
InitName ==
    /\ \E path \in Paths :
          /\ name = NameStart(path)
          /\ mask = MaskStart(Tile(1, 1, <<0, 0>>, "flat"), path)
    /\ label = LabelWritten(Tile(1, 1, <<0, 0>>, "flat"))
    /\ disk = [labels |-> SampleLabel, raster |-> NoFile]
    /\ clip = Idle /\ norm = Idle /\ lut = Idle /\ gla = Idle

NextName == FormatLabelFn \/ MaskRaster

SpecName == InitName /\ [][NextName]_vars

\* The loaders of reference data.
InitLoad ==
    /\ \E desc \in AllDescs : lut = LutStart(desc)
    /\ \E vector \in AllVectors, desc \in {[primary |-> Unreadable, fallback |-> x] : x \in {Unreadable, RemoteDesc}} :
          gla = GlaStart(Tile(2, 2, <<0, 0>>, "flat"), vector, desc)
    /\ clip = Idle /\ norm = Idle /\ name = Idle
    /\ label = Idle /\ mask = Idle /\ disk = EmptyDisk

NextLoad == GenerateUnitcolorLookup \/ GenerateLabelArray

SpecLoad == InitLoad /\ [][NextLoad]_vars

\* mask_raster on its own: any label raster, any image.
InitMask ==
    /\ \E lbl \in MaskLabels, img \in MaskImages :
          /\ disk = [labels |-> lbl, raster |-> NoFile]
          /\ mask = MaskStart(img, SamplePath)
          /\ label = LabelWritten(Tile(lbl.cols, 1, <<0, 0>>, "flat"))
    /\ clip = Idle /\ norm = Idle /\ name = Idle /\ lut = Idle /\ gla = Idle

NextMask == MaskRaster

SpecMask == InitMask /\ [][NextMask]_vars

(***************************************************************************)
(* Properties.                                                              *)
(***************************************************************************)
Supported(g) == g.kind \in {"Polygon", "MultiPolygon"}

\* C1: part_the_geojson drops every record whose polygon does not intersect
\* the bounds and keeps every record whose polygon does, clipped to a subset
\* of the polygon inside the bounds, whatever the row labels of the frame.
C1_ClipKeepsIntersecting ==
    clip.pc = "done" =>
        /\ clip.new.status = "ok"
        /\ \A k \in DOMAIN clip.given :
              LET r == clip.given[k]
                  kept == {j \in DOMAIN clip.new.rows : clip.new.rows[j].index = r.index}
              IN  IF intersects(r.geometry, clip.bounds)
                  THEN /\ kept # {}
                       /\ \A j \in kept :
                             /\ Cells(clip.new.rows[j].geometry) \subseteq Cells(r.geometry)
                             /\ Cells(clip.new.rows[j].geometry) \subseteq Cells(clip.bounds)
                  ELSE kept = {}

\* The records clean_gdf_geometry is to emit for the input, as (row, part).
Pieces(gdf) == UNION {{<<k, j>> : j \in 1..Len(gdf[k].geometry.parts)} : k \in DOMAIN gdf}

Piece(gdf, q) ==
    [geometry |-> Polygon(gdf[q[1]].geometry.parts[q[2]]), mapunit |-> gdf[q[1]].mapunit]

Content(row) == [geometry |-> row.geometry, mapunit |-> row.mapunit]

\* Each record to emit occurs in the output as often as the input asks for.
EmitsEachPiece(gdf, rows) ==
    /\ \A q \in Pieces(gdf) :
          Cardinality({j \in DOMAIN rows : Content(rows[j]) = Piece(gdf, q)})
            = Cardinality({x \in Pieces(gdf) : Piece(gdf, x) = Piece(gdf, q)})
    /\ Len(rows) = Cardinality(Pieces(gdf))

EmptyCompound(gdf) ==
    {k \in DOMAIN gdf : gdf[k].geometry.kind = "MultiPolygon" /\ gdf[k].geometry.parts = <<>>}

\* C2 as stated: for an input of Polygon and MultiPolygon records,
\* clean_gdf_geometry emits each Polygon record once and one record per
\* constituent of each MultiPolygon, with the record's attributes; the output
\* holds Polygons only and has at least as many records as the input.
C2_NormalizeAsStated ==
    (norm.pc = "done" /\ \A k \in DOMAIN norm.gdf : Supported(norm.gdf[k].geometry)) =>
        /\ norm.outdf.status = "ok"
        /\ EmitsEachPiece(norm.gdf, norm.outdf.rows)
        /\ \A j \in DOMAIN norm.outdf.rows : norm.outdf.rows[j].geometry.kind = "Polygon"
        /\ Len(norm.outdf.rows) >= Len(norm.gdf)

\* C2 amended: the call fails only on a MultiPolygon with no constituent;
\* when it returns, it has emitted each Polygon record once and one record
\* per constituent of each MultiPolygon, with the record's attributes, the
\* output holds Polygons only, and it has at least as many records as the
\* input has records that are not a MultiPolygon with no constituent.
C2_Normalize ==
    (norm.pc = "done" /\ \A k \in DOMAIN norm.gdf : Supported(norm.gdf[k].geometry)) =>
        /\ norm.outdf.status # "ok" => EmptyCompound(norm.gdf) # {}
        /\ norm.outdf.status = "ok" =>
              /\ EmitsEachPiece(norm.gdf, norm.outdf.rows)
              /\ \A j \in DOMAIN norm.outdf.rows :
                    norm.outdf.rows[j].geometry.kind = "Polygon"
              /\ Len(norm.outdf.rows)
                    >= Len(norm.gdf) - Cardinality(EmptyCompound(norm.gdf))

\* C2 witness: a Polygon and a MultiPolygon of two different constituents were normalized.
C2_Witness ==
    /\ norm.pc = "done" /\ norm.outdf.status = "ok" /\ Len(norm.outdf.rows) = 3
    /\ \E k \in DOMAIN norm.gdf : norm.gdf[k].geometry.kind = "Polygon"
    /\ \E k \in DOMAIN norm.gdf :
          /\ norm.gdf[k].geometry.kind = "MultiPolygon"
          /\ Len(norm.gdf[k].geometry.parts) = 2
          /\ norm.gdf[k].geometry.parts[1] # norm.gdf[k].geometry.parts[2]

\* C3: an input holding a geometry that is neither Polygon nor MultiPolygon
\* makes clean_gdf_geometry end in an UnsupportedGeometry error; the record
\* is never left out silently.
C3_UnsupportedRaises ==
    (norm.pc = "done" /\ \E k \in DOMAIN norm.gdf : ~Supported(norm.gdf[k].geometry)) =>
        norm.outdf.status = "UnsupportedGeometry"

\* The records of the rasterized frame whose polygon covers pixel p of the
\* label array.
Covering(p) ==
    {k \in DOMAIN label.gdf :
        PixelLoc(label.tile.transform, p[1], p[2]) \in Cells(label.gdf[k].geometry)}

LastOf(S) == CHOOSE k \in S : \A j \in S : j <= k

\* The description file that was read.
DescRead == IF label.desc.primary.readable THEN label.desc.primary.data
            ELSE label.desc.fallback.data

\* The colours the description file gives a unit.
ColorsOf(u) ==
    {<<Channel(DescRead[r].areafillrgb, 1), Channel(DescRead[r].areafillrgb, 2),
       Channel(DescRead[r].areafillrgb, 3)>> : r \in {x \in DOMAIN DescRead : DescRead[x].mapunit = u}}

PixelOf(array, p) == <<array.bands[1][p], array.bands[2][p], array.bands[3][p]>>

\* C4: the label image built by gdf_to_rst for a tile of width W and height
\* H has H rows and W columns, also when W differs from H, and the label
\* raster written from it has the tile's dimensions and transform.
C4_LabelMatchesTile ==
    /\ label.array.status = "ok" =>
          /\ label.array.rows = label.tile.height
          /\ label.array.cols = label.tile.width
    /\ (label.pc = "written" /\ label.src = label.tile) =>
          /\ disk.labels.rows = label.tile.height
          /\ disk.labels.cols = label.tile.width
          /\ disk.labels.transform = label.tile.transform

\* C6: in the label image a pixel covered by no polygon is (0,0,0), and a
\* pixel covered by polygons has, in all three channels, the R, G and B of
\* the record that comes last among those covering it.
C6_LastWriteWins ==
    label.array.status = "ok" =>
        \A p \in Rect(1, label.array.rows, 1, label.array.cols) :
            IF Covering(p) = {} THEN PixelOf(label.array, p) = <<0, 0, 0>>
            ELSE ColorsOf(label.gdf[LastOf(Covering(p))].mapunit)
                    = {PixelOf(label.array, p)}

\* C6 witness: a pixel covered by two records of different colours, and a pixel covered
\* by none, were rasterized.
C6_Witness ==
    /\ label.array.status = "ok"
    /\ \E p \in Rect(1, label.array.rows, 1, label.array.cols) :
          \E j, k \in Covering(p) :
              /\ j < k
              /\ ColorsOf(label.gdf[j].mapunit) # ColorsOf(label.gdf[k].mapunit)
    /\ \E p \in Rect(1, label.array.rows, 1, label.array.cols) : Covering(p) = {}

\* C7 as stated: a failed run creates or leaves no output raster file.
C7_NoFileAfterFailure ==
    /\ label.pc = "failed" => ~disk.labels.exists
    /\ mask.pc = "failed" => ~disk.raster.exists

\* C7 amended: the output is opened for writing only after every step
\* before it has succeeded: a failure of the reads, of the colour
\* resolution, of the rasterization or of the reshape (the label array's
\* size against the raster's width and height) leaves no output file; a
\* failed run leaves one only when a write of a band failed after the output
\* had been created.
C7_WriterAfterUpstream ==
    /\ (label.pc = "failed" /\ disk.labels.exists) =>
          /\ label.fault = "write"
          /\ label.array.rows * label.array.cols = label.src.width * label.src.height
    /\ (label.pc = "failed" /\ label.status = "ValueError") => ~disk.labels.exists
    /\ (mask.pc = "failed" /\ disk.raster.exists) => mask.fault = "write"

\* C7 witness: the reshape failed on an array of another size than the raster, and no
\* label raster exists.
C7_Witness ==
    /\ label.pc = "failed" /\ label.status = "ValueError"
    /\ label.array.rows * label.array.cols # label.src.width * label.src.height
    /\ ~disk.labels.exists

\* C9: a lookup of a unit in the table built by generate_unitcolor_lookup
\* returns one (R,G,B) triple, and resolving a record whose unit has no
\* entry raises UnknownUnit (KeyError) instead of yielding a colour.
C9_LookupSingle ==
    (label.pc # "start" /\ label.array.status \notin {"ResourceUnavailable", "ParseError"}) =>
        \A k \in DOMAIN label.array.resolved :
            IF \E r \in DOMAIN DescRead : DescRead[r].mapunit = label.gdf[k].mapunit
            THEN /\ label.array.resolved[k].status = "ok"
                 /\ Len(label.array.resolved[k].values) = 1
                 /\ {label.array.resolved[k].values[1]} = ColorsOf(label.gdf[k].mapunit)
            ELSE /\ label.array.resolved[k].status = "KeyError"
                 /\ label.array.status = "KeyError"

\* The mask of the label raster on disk at pixel p of band n.
Valid(n, p) == disk.labels.bands[n][p] # disk.labels.nodata

SameShape == disk.labels.rows = mask.img.height /\ disk.labels.cols = mask.img.width

\* C5 as stated: mask_raster applies one mask, 1 where the label raster is
\* valid in all channels: every band of a pixel of the output is the image's
\* value where that mask is 1 and 0 where it is 0.
C5_SingleMask ==
    (mask.pc = "done" /\ SameShape) =>
        \A n \in 1..3 : \A p \in Rect(1, mask.img.height, 1, mask.img.width) :
            disk.raster.bands[n][p]
              = IF \A m \in 1..3 : Valid(m, p) THEN ReadBand(mask.img, n)[p] ELSE 0

\* C5 amended: mask_raster applies to each band of the image the mask of the
\* same band of the label raster: band n of a pixel of the output is the
\* image's value of band n where band n of the label raster is valid and 0
\* where it is not.
C5_BandMask ==
    (mask.pc = "done" /\ SameShape) =>
        \A n \in 1..3 : \A p \in Rect(1, mask.img.height, 1, mask.img.width) :
            disk.raster.bands[n][p] = IF Valid(n, p) THEN ReadBand(mask.img, n)[p] ELSE 0

\* C5 witness: an image was masked by a label raster that is valid in one band and not
\* in another at some pixel.
C5_Witness ==
    /\ mask.pc = "done" /\ SameShape
    /\ \E p \in Rect(1, mask.img.height, 1, mask.img.width) :
          \E m, n \in 1..3 : Valid(m, p) /\ ~Valid(n, p)

\* C8: the loaders try the primary source first and fetch the fallback only
\* after the primary proved unreadable, once; a readable primary means the
\* fallback is not fetched; when both fail the result is
\* ResourceUnavailable and nothing is returned.
TwoStage(primary, fallback, fetched, unavailable) ==
    /\ fetched \in {<<"primary">>, <<"primary", "fallback">>}
    /\ primary.readable <=> fetched = <<"primary">>
    /\ (~primary.readable /\ ~fallback.readable) <=> unavailable

C8_TwoStageLoad ==
    /\ lut.pc = "done" =>
          /\ TwoStage(lut.desc.primary, lut.desc.fallback, lut.unitcolor.fetched,
                      lut.unitcolor.status = "ResourceUnavailable")
          /\ lut.unitcolor.status = "ResourceUnavailable" => lut.unitcolor.table = <<>>
    /\ gla.pc = "done" =>
          /\ TwoStage(gla.vector.primary, gla.vector.fallback, gla.out.vfetched,
                      gla.out.status = "ResourceUnavailable" /\ gla.out.failed_in = "read_file")
          /\ gla.out.failed_in \in {"", "gdf_to_rst"} =>
                TwoStage(gla.desc.primary, gla.desc.fallback, gla.out.dfetched,
                         gla.out.status = "ResourceUnavailable")
          /\ gla.out.status = "ResourceUnavailable" => gla.out.array.bands = <<>>

\* C8 witness: the description file was read from the fallback after the primary
\* failed, and the vector source failed twice.
C8_Witness ==
    /\ lut.pc = "done" /\ lut.unitcolor.status = "ok"
    /\ lut.unitcolor.fetched = <<"primary", "fallback">>
    /\ gla.pc = "done" /\ gla.out.status = "ResourceUnavailable"

\* The directory part of a path (up to its last "/"), its base name, and the
\* first underscore-delimited token of a name.
LastSlash(p) == IF Contains(p, "/")
                THEN CHOOSE i \in DOMAIN p : p[i] = "/" /\ \A j \in (i + 1)..Len(p) : p[j] # "/"
                ELSE 0

DirPart(p) == SubSeq(p, 1, LastSlash(p))

BaseName(p) == SubSeq(p, LastSlash(p) + 1, Len(p))

FirstToken(b) == IF Contains(b, "_") THEN SubSeq(b, 1, FirstIndex(b, "_") - 1) ELSE b

\* C10: the output name is the directory part of the input path, unchanged,
\* then the first underscore-delimited token of the base name, then the
\* suffix: '_labels.tif' in format_label_fn, '_raster.tif' in mask_raster.
C10_OutputNames ==
    /\ name.pc = "done" =>
          name.label_fn = DirPart(name.path_to_rasterfile)
                            \o FirstToken(BaseName(name.path_to_rasterfile)) \o LabelSuffix
    /\ mask.pc # "start" =>
          mask.outname = DirPart(mask.imgpth) \o FirstToken(BaseName(mask.imgpth))
                            \o RasterSuffix

====
